---- MODULE Spec2Model ----
(***************************************************************************)
(* A model of OpenSpaceNet::process() (common/src/OpenSpaceNet.cpp): the   *)
(* image initialisation and bounding-box reconciliation, the detector and  *)
(* window planning, the region-filter build, the wiring of the processing  *)
(* graph and the progress callbacks that propagate a user's stop.          *)
(***************************************************************************)
EXTENDS Integers, Sequences, FiniteSets, TLC

VARIABLES
    args_,                \* OpenSpaceNetArgs, fixed by the constructor
    env,                  \* what the files, the model package and the service hold
    pd_,                  \* TRUE iff setProgressDisplay() has set a display
    pc,                   \* position inside process()
    failure,              \* the error thrown out of process(), "none" if none
    log,                  \* warnings and notices issued, in order
    imageSize_, pixelToProj_, imageSr_, sr_, bbox_, pixelToLL_, haveAlpha_,
    primaryWindowSize_, primaryWindowStep_,
    regionFilter, firstAction, actionIdx, subsetFilter,
    windowSizes, aoi,
    nodes, inputs, attrConn,
    subscriptions, ran,
    pdRunning, cb, events, cancelCalls, updates, stopSeen, outcome

vars == << args_, env, pd_, pc, failure, log,
           imageSize_, pixelToProj_, imageSr_, sr_, bbox_, pixelToLL_, haveAlpha_,
           primaryWindowSize_, primaryWindowStep_,
           regionFilter, firstAction, actionIdx, subsetFilter,
           windowSizes, aoi, nodes, inputs, attrConn, subscriptions, ran,
           pdRunning, cb, events, cancelCalls, updates, stopSeen, outcome >>

imageVars    == << imageSize_, pixelToProj_, imageSr_, sr_, bbox_, pixelToLL_, haveAlpha_ >>
detectorVars == << primaryWindowSize_, primaryWindowStep_ >>
filterVars   == << regionFilter, firstAction, actionIdx, subsetFilter >>
windowVars   == << windowSizes, aoi >>
graphVars    == << nodes, inputs, attrConn >>
monitorVars  == << subscriptions, ran, pdRunning, cb, events, cancelCalls,
                   updates, stopSeen, outcome >>

----------------------------------------------------------------------------
(* Bounds of the model.                                                    *)

MaxCoord  == 3      \* image sides and bounding-box coordinates range over 0..MaxCoord
MaxWidth  == 2      \* requested window widths and steps range over 1..MaxWidth
MaxList   == 3      \* longest --window-size / --window-step list
MaxEvents == 3      \* metric changes delivered during one run
MaxActions == 2     \* longest region-filter action list

----------------------------------------------------------------------------
(* Optional values (boost::optional, a null node pointer).                 *)

None == << >>

Some(v) == << v >>

IsSet(o) == o /= << >>

Get(o) == o[1]

Min(a, b) == IF a < b THEN a ELSE b

Max(a, b) == IF a > b THEN a ELSE b

\* floor and ceiling of a / b for b > 0 (a may be negative)
FloorDiv(a, b) == a \div b

CeilDiv(a, b) == -((-a) \div b)

----------------------------------------------------------------------------
(* cv::Rect and cv::Size.                                                  *)

Rect(x, y, w, h) == [x |-> x, y |-> y, w |-> w, h |-> h]

Size(w, h) == [w |-> w, h |-> h]

\* cv::Rect{ {0, 0}, size }
RectOfSize(s) == Rect(0, 0, s.w, s.h)

\* cv::Rect operator&: the empty rectangle Rect() when the two do not overlap
Intersect(a, b) ==
    LET x1 == Max(a.x, b.x)
        y1 == Max(a.y, b.y)
        w  == Min(a.x + a.w, b.x + b.w) - x1
        h  == Min(a.y + a.h, b.y + b.h) - y1
    IN  IF w <= 0 \/ h <= 0 THEN Rect(0, 0, 0, 0) ELSE Rect(x1, y1, w, h)

Within(r, outer) ==
    /\ outer.x <= r.x /\ r.x + r.w <= outer.x + outer.w
    /\ outer.y <= r.y /\ r.y + r.h <= outer.y + outer.h

----------------------------------------------------------------------------
(* Transformations and TransformationChain. A transformation is a record   *)
(* [name, inverted]; a chain applies its members in order. Projected       *)
(* coordinates are integers: the image's pixelToProj is                    *)
(* proj = origin + PixelScale * pixel, and the spatial reference's         *)
(* fromLatLon shifts by FalseEasting.                                      *)

PixelScale == 2

FalseEasting == 1

T(name) == [name |-> name, inverted |-> FALSE, shift |-> 0]

\* the shift of a named spatial reference's from(WGS84): WGS84 itself needs
\* none, a projected reference shifts by FalseEasting
SrShift(sr) == IF sr = "WGS84" THEN 0 ELSE FalseEasting

\* layer.spatialReference().from(SpatialReference::WGS84)
FromWGS84(sr) == [name |-> "fromWGS84", inverted |-> FALSE, shift |-> SrShift(sr)]

Inv(t) == [t EXCEPT !.inverted = ~t.inverted]

\* TransformationChain::inverse(): the members' inverses in reverse order
ChainInverse(chain) ==
    [i \in 1..Len(chain) |-> Inv(chain[Len(chain) + 1 - i])]

\* one coordinate through one transformation; a division rounds down
\* (up = FALSE) or up (up = TRUE), which is what transformToInt asks for
ApplyOne(t, origin, v, up) ==
    CASE t.name = "fromLatLon" /\ ~t.inverted -> v + FalseEasting
      [] t.name = "fromLatLon" /\ t.inverted  -> v - FalseEasting
      [] t.name = "pixelToProj" /\ ~t.inverted -> origin + PixelScale * v
      [] t.name = "pixelToProj" /\ t.inverted ->
             IF up THEN CeilDiv(v - origin, PixelScale)
                   ELSE FloorDiv(v - origin, PixelScale)
      [] t.name = "fromWGS84" /\ ~t.inverted -> v + t.shift
      [] t.name = "fromWGS84" /\ t.inverted  -> v - t.shift
      [] OTHER -> v

RECURSIVE ApplyChain(_, _, _, _)
ApplyChain(chain, origin, v, up) ==
    IF chain = << >> THEN v
    ELSE ApplyChain(Tail(chain), origin, ApplyOne(Head(chain), origin, v, up), up)

\* Transformation::transformToInt(rect): the integer rectangle that covers
\* the transformed one (top-left rounded down, bottom-right rounded up)
TransformToInt(chain, origin, r) ==
    LET x0 == ApplyChain(chain, origin.x, r.x, FALSE)
        y0 == ApplyChain(chain, origin.y, r.y, FALSE)
        x1 == ApplyChain(chain, origin.x, r.x + r.w, TRUE)
        y1 == ApplyChain(chain, origin.y, r.y + r.h, TRUE)
    IN  Rect(x0, y0, x1 - x0, y1 - y0)

\* Transformation::transform(rect) for a chain without rounding
TransformRect(chain, origin, r) ==
    LET x0 == ApplyChain(chain, origin.x, r.x, FALSE)
        y0 == ApplyChain(chain, origin.y, r.y, FALSE)
        x1 == ApplyChain(chain, origin.x, r.x + r.w, FALSE)
        y1 == ApplyChain(chain, origin.y, r.y + r.h, FALSE)
    IN  Rect(x0, y0, x1 - x0, y1 - y0)

----------------------------------------------------------------------------
(* Spatial references: LOCAL has no geographic anchoring.                  *)

IsLocal(sr) == sr = "LOCAL"

\* the value of a default-constructed SpatialReference member
DefaultSpatialReference == "LOCAL"

\* enum Source: UNKNOWN < LOCAL < the map services
SourceRank(s) ==
    CASE s = "UNKNOWN" -> 0
      [] s = "LOCAL"   -> 1
      [] OTHER         -> 2

----------------------------------------------------------------------------
(* The errors process() throws (DG_CHECK, DG_ERROR_THROW), by message.     *)

MissingInputSource == "Input source not specified"

NoIntersection == "Input image and the provided bounding box do not intersect"

MissingBbox == "Bounding box must be specified"

Throw(msg) ==
    /\ failure' = msg
    /\ pc' = "failed"

----------------------------------------------------------------------------
(* Nodes of the processing graph: created once, by name, with the class    *)
(* that create() instantiated.                                             *)

Node(name, class) == [name |-> name, class |-> class]

HasNode(ns, name) == \E n \in ns : n.name = name

\* consumer.connectAttrs(provider)
ConnectAttrs(consumer, provider) == << consumer, provider >>

\* consumer->input(port) = producer->output(port): every assignment made
\* to the consumer's input port is recorded, in order
Connect(ins, consumer, producer) ==
    [ins EXCEPT ![consumer] = Append(@, producer)]

----------------------------------------------------------------------------
(* process(), lines 100-109: the image is opened.                          *)

\* IgnoreArgsBbox that never ignores the box
IgnoreArgsBboxNever(imageSr, bbox) == FALSE

\* lines 293-313: a bounding box given for an image without geographic
\* anchoring is ignored
IgnoreArgsBbox(imageSr, bbox) == IsLocal(imageSr) /\ IsSet(bbox)

\* initLocalImage()
InitLocalImage ==
    /\ pc = "openImage"
    /\ SourceRank(args_.source) = 1
    /\ LET full   == RectOfSize(env.imageSize)
           local  == IsLocal(env.imageSr)
           llToPixel ==
               IF ~local THEN << T("fromLatLon"), Inv(T("pixelToProj")) >>
                         ELSE << Inv(T("pixelToProj")) >>
           ignoreArgsBbox == IgnoreArgsBbox(env.imageSr, args_.bbox)
           bbox      == TransformToInt(llToPixel, env.origin, Get(args_.bbox))
           intersect == Intersect(full, bbox)
           useBbox   == IsSet(args_.bbox) /\ ~ignoreArgsBbox
       IN  /\ imageSize_' = env.imageSize
           /\ pixelToProj_' = env.origin
           /\ imageSr_' = env.imageSr
           /\ sr_' = IF ~local THEN "WGS84" ELSE sr_
           /\ pixelToLL_' = ChainInverse(llToPixel)
           /\ IF useBbox /\ ~(intersect.w /= 0 /\ intersect.h /= 0)
              THEN /\ Throw(NoIntersection)
                   /\ bbox_' = full
                   /\ log' = log \o (IF local THEN << "no conversion to WGS84" >>
                                               ELSE << >>)
                   /\ UNCHANGED haveAlpha_
              ELSE /\ bbox_' = IF useBbox THEN intersect ELSE full
                   /\ log' = log
                        \o (IF local THEN << "no conversion to WGS84" >> ELSE << >>)
                        \o (IF ignoreArgsBbox
                            THEN << "Ignoring user-supplied bounding box" >> ELSE << >>)
                        \o (IF useBbox /\ bbox /= intersect
                            THEN << "Bounding box adjusted" >> ELSE << >>)
                   /\ haveAlpha_' = env.alpha
                   /\ pc' = "initDetector"
                   /\ UNCHANGED failure
    /\ nodes' = IF pc' = "failed" THEN nodes
                ELSE nodes \cup {Node("blockSource", "GdalBlockSource")}
    /\ UNCHANGED << args_, env, pd_, detectorVars, filterVars, windowVars,
                    inputs, attrConn, monitorVars >>

\* MapServiceClient::imageFromArea(projBbox): the image made of the tiles
\* that cover the area, at least one tile
TileSize == 2

ImageFromArea(projBbox) ==
    LET span == TileSize * PixelScale
        ox == FloorDiv(projBbox.x, span) * span
        oy == FloorDiv(projBbox.y, span) * span
        ex == Max(CeilDiv(projBbox.x + projBbox.w, span) * span, ox + span)
        ey == Max(CeilDiv(projBbox.y + projBbox.h, span) * span, oy + span)
    IN  [origin |-> [x |-> ox, y |-> oy],
         size   |-> Size((ex - ox) \div PixelScale, (ey - oy) \div PixelScale),
         sr     |-> "EPSG:3857"]

\* initMapServiceImage()
InitMapServiceImage ==
    /\ pc = "openImage"
    /\ SourceRank(args_.source) > 1
    /\ IF ~IsSet(args_.bbox)
       THEN /\ Throw(MissingBbox)
            /\ UNCHANGED << imageVars, log >>
       ELSE LET llToProj    == << T("fromLatLon") >>
                projBbox    == TransformRect(llToProj, env.origin, Get(args_.bbox))
                image       == ImageFromArea(projBbox)
                projToPixel == Inv(T("pixelToProj"))
            IN  /\ imageSize_' = image.size
                /\ pixelToProj_' = image.origin
                /\ imageSr_' = image.sr
                /\ bbox_' = TransformToInt(<< projToPixel >>, image.origin, projBbox)
                /\ pixelToLL_' = ChainInverse(<< T("fromLatLon"), projToPixel >>)
                /\ sr_' = "WGS84"
                /\ haveAlpha_' = env.alpha
                /\ pc' = "initDetector"
                /\ UNCHANGED << failure, log >>
    /\ nodes' = IF pc' = "failed" THEN nodes
                ELSE nodes \cup {Node("blockSource", "MapServiceBlockSource")}
    /\ UNCHANGED << args_, env, pd_, detectorVars, filterVars, windowVars,
                    inputs, attrConn, monitorVars >>

\* process(), lines 107-109: neither a local image nor a map service
NoInputSource ==
    /\ pc = "openImage"
    /\ SourceRank(args_.source) < 1
    /\ Throw(MissingInputSource)
    /\ UNCHANGED << args_, env, pd_, log, imageVars, detectorVars, filterVars,
                    windowVars, graphVars, monitorVars >>

----------------------------------------------------------------------------
(* process(), lines 111-126, and initDetector().                           *)

ResampleSizeTooLarge == "Argument --resample-size does not fit within the model"

WindowSizeTooLarge ==
    "Argument --window-size contains a size that does not fit within the model"

UnsupportedModelType == "Unsupported model type"

Point(x, y) == [x |-> x, y |-> y]

\* (int) roundf(modelAspectRatio_ * v), with modelAspectRatio_ =
\* modelSize.height / modelSize.width and v >= 0: halves round away from zero
RoundAspect(modelSize, v) ==
    (2 * modelSize.h * v + modelSize.w) \div (2 * modelSize.w)

\* Model::defaultStep(size): the model's own choice of step for a window
\* size, which this program only passes on
DefaultStep(size) == [defaultStepFor |-> size]

\* PrimaryWindowSize that never looks at the requested widths
PrimaryWindowSizeModelOnly(a, modelSize) ==
    IF IsSet(a.resampledSize)
    THEN Size(Get(a.resampledSize), RoundAspect(modelSize, Get(a.resampledSize)))
    ELSE modelSize

\* lines 473-479
PrimaryWindowSize(a, modelSize) ==
    IF a.windowSize /= << >>
    THEN Size(a.windowSize[1], RoundAspect(modelSize, a.windowSize[1]))
    ELSE IF IsSet(a.resampledSize)
         THEN Size(Get(a.resampledSize), RoundAspect(modelSize, Get(a.resampledSize)))
         ELSE modelSize

\* lines 481-485
PrimaryWindowStep(a, modelSize, primarySize) ==
    IF a.windowStep /= << >>
    THEN Point(a.windowStep[1], RoundAspect(modelSize, a.windowStep[1]))
    ELSE DefaultStep(primarySize)

\* DetectorSizeError that looks at the first requested window size only
DetectorSizeErrorFirstOnly(a, modelSize) ==
    IF IsSet(a.resampledSize) /\ ~(Get(a.resampledSize) <= modelSize.w)
    THEN ResampleSizeTooLarge
    ELSE IF /\ ~IsSet(a.resampledSize)
            /\ a.windowSize /= << >>
            /\ ~(a.windowSize[1] <= modelSize.w)
    THEN WindowSizeTooLarge
    ELSE "none"

\* lines 487-497: the size checks of initDetector, "none" if both pass
DetectorSizeError(a, modelSize) ==
    IF IsSet(a.resampledSize) /\ ~(Get(a.resampledSize) <= modelSize.w)
    THEN ResampleSizeTooLarge
    ELSE IF /\ ~IsSet(a.resampledSize)
            /\ \E i \in 1..Len(a.windowSize) : ~(a.windowSize[i] <= modelSize.w)
    THEN WindowSizeTooLarge
    ELSE "none"

InitDetector ==
    /\ pc = "initDetector"
    /\ LET modelSize == env.modelSize
           size == PrimaryWindowSize(args_, modelSize)
           cache == {Node("blockCache", "BlockCache")}
       IN  /\ primaryWindowSize_' = size
           /\ primaryWindowStep_' = PrimaryWindowStep(args_, modelSize, size)
           /\ attrConn' = attrConn \cup {ConnectAttrs("blockCache", "blockSource")}
           /\ IF DetectorSizeError(args_, modelSize) /= "none"
              THEN /\ Throw(DetectorSizeError(args_, modelSize))
                   /\ nodes' = nodes \cup cache
              ELSE IF env.category = "segmentation" /\ ~env.segmentationModel
              THEN /\ Throw(UnsupportedModelType)
                   /\ nodes' = nodes \cup cache
              ELSE /\ nodes' = nodes \cup cache \cup
                        {Node("detector",
                              IF env.category = "segmentation"
                              THEN "PolyDetector" ELSE "BoxDetector")}
                   /\ pc' = "initSubsetRegionFilter"
                   /\ UNCHANGED failure
    /\ UNCHANGED << args_, env, pd_, log, imageVars, filterVars, windowVars,
                    inputs, monitorVars >>

----------------------------------------------------------------------------
(* process(), lines 128-134, and initSubsetRegionFilter(). A region filter *)
(* is the set of pixels it lets through; a polygon is an axis-aligned      *)
(* rectangle given in its layer's coordinates.                             *)

CrsMismatchFilterLacks ==
    "Error applying region filter: file doesn't have a spatial reference, but the input image does"

CrsMismatchImageLacks ==
    "Error applying region filter: Input image doesn't have a spatial reference, but the file does"

UnsupportedGeometryType == "Filter from file contains a geometry that is not a POLYGON"

UnknownFilterAction == "Unknown filtering action"

CellsOf(r) ==
    {<< x, y >> : x \in r.x .. (r.x + r.w - 1), y \in r.y .. (r.y + r.h - 1)}

\* RegionFilter::add and RegionFilter::subtract
FilterAdd(filter, cells) == filter \cup cells

FilterSubtract(filter, cells) == filter \ cells

\* cv::Rect(0, 0, bbox_.width, bbox_.height)
FullExtent(bbox) == Rect(0, 0, bbox.w, bbox.h)

\* LayerTransform on a chain that already carries the layer's from(WGS84),
\* as it would if the appends went to the shared chain
LayerTransformTwice(pixelToLL, sr, layerSr) ==
    LET pixelToProj ==
            IF IsLocal(layerSr) = IsLocal(sr) /\ ~IsLocal(sr)
            THEN Append(Append(pixelToLL, FromWGS84(layerSr)), FromWGS84(layerSr))
            ELSE pixelToLL
    IN  ChainInverse(pixelToProj)

\* lines 418-428: a copy of pixelToLL_, with the layer's from(WGS84)
\* appended when both sides are anchored, then inverted
LayerTransform(pixelToLL, sr, layerSr) ==
    LET pixelToProj ==
            IF IsLocal(layerSr) = IsLocal(sr) /\ ~IsLocal(sr)
            THEN Append(pixelToLL, FromWGS84(layerSr))
            ELSE pixelToLL
    IN  ChainInverse(pixelToProj)

\* lines 420-422: the error of a layer whose anchoring differs, "none" else
LayerCrsError(sr, layerSr) ==
    IF IsLocal(layerSr) /= IsLocal(sr)
    THEN IF ~IsLocal(layerSr) THEN CrsMismatchFilterLacks
         ELSE IF ~IsLocal(sr) THEN CrsMismatchImageLacks
         ELSE "none"
    ELSE "none"

\* lines 430-433
LayerGeometryError(layer) ==
    IF \E i \in 1..Len(layer.features) : layer.features[i].type /= "POLYGON"
    THEN UnsupportedGeometryType ELSE "none"

LayerError(sr, layer) ==
    IF LayerCrsError(sr, layer.sr) /= "none" THEN LayerCrsError(sr, layer.sr)
    ELSE LayerGeometryError(layer)

\* the first error met while the layers of one action are read, in order
RECURSIVE FirstLayerError(_, _)
FirstLayerError(sr, layers) ==
    IF layers = << >> THEN "none"
    ELSE IF LayerError(sr, Head(layers)) /= "none" THEN LayerError(sr, Head(layers))
    ELSE FirstLayerError(sr, Tail(layers))

\* lines 430-436: the layer's polygons in pixel space
LayerCells(pixelToLL, origin, sr, layer) ==
    UNION {CellsOf(TransformToInt(LayerTransform(pixelToLL, sr, layer.sr), origin,
                                  layer.features[i].rect))
           : i \in 1..Len(layer.features)}

\* filterPolys of one action: the polygons of all its layers
FilterPolys(pixelToLL, origin, sr, layers) ==
    UNION {LayerCells(pixelToLL, origin, sr, layers[i]) : i \in 1..Len(layers)}

\* ApplyFilterAction that includes the full extent before every exclusion
ApplyFilterActionAlwaysFull(filter, first, action, filterPolys, full) ==
    IF action = "include"
    THEN FilterAdd(filter, filterPolys)
    ELSE FilterSubtract(FilterAdd(filter, CellsOf(full)), filterPolys)

\* lines 439-448: the filter after an "include" or an "exclude" action
ApplyFilterAction(filter, first, action, filterPolys, full) ==
    IF action = "include"
    THEN FilterAdd(filter, filterPolys)
    ELSE FilterSubtract(IF first THEN FilterAdd(filter, CellsOf(full)) ELSE filter,
                        filterPolys)

\* lines 128-134 and 405-411
InitSubsetRegionFilter ==
    /\ pc = "initSubsetRegionFilter"
    /\ nodes' = nodes \cup {Node("border", "SubsetWithBorder")}
    /\ attrConn' = attrConn \cup {ConnectAttrs("border", "blockSource")}
    /\ IF args_.filterDefinition /= << >>
       THEN /\ regionFilter' = {}
            /\ firstAction' = TRUE
            /\ actionIdx' = 1
            /\ pc' = "filterAction"
            /\ UNCHANGED subsetFilter
       ELSE /\ subsetFilter' = None
            /\ pc' = "initSlidingWindow"
            /\ UNCHANGED << regionFilter, firstAction, actionIdx >>
    /\ UNCHANGED << args_, env, pd_, failure, log, imageVars, detectorVars,
                    windowVars, inputs, monitorVars >>

\* lines 412-452: one pass of the loop over args_.filterDefinition
FilterAction ==
    /\ pc = "filterAction"
    /\ actionIdx <= Len(args_.filterDefinition)
    /\ LET filterAction == args_.filterDefinition[actionIdx]
           action == filterAction.action
           err    == FirstLayerError(sr_, filterAction.layers)
           filterPolys == FilterPolys(pixelToLL_, pixelToProj_, sr_, filterAction.layers)
       IN  IF err /= "none"
           THEN /\ Throw(err)
                /\ UNCHANGED << regionFilter, firstAction, actionIdx, log >>
           ELSE IF action \in {"include", "exclude"}
           THEN /\ regionFilter' = ApplyFilterAction(regionFilter, firstAction, action,
                                                     filterPolys, FullExtent(bbox_))
                /\ log' = IF action = "exclude" /\ firstAction
                          THEN Append(log, "automatically including the bounding box")
                          ELSE log
                /\ firstAction' = FALSE
                /\ actionIdx' = actionIdx + 1
                /\ UNCHANGED << pc, failure >>
           ELSE /\ Throw(UnknownFilterAction)
                /\ UNCHANGED << regionFilter, firstAction, actionIdx, log >>
    /\ UNCHANGED << args_, env, pd_, subsetFilter, imageVars, detectorVars,
                    windowVars, graphVars, monitorVars >>

\* lines 455-458: the loop is over, the node takes the filter
FilterDone ==
    /\ pc = "filterAction"
    /\ actionIdx > Len(args_.filterDefinition)
    /\ subsetFilter' = Some(regionFilter)
    /\ nodes' = nodes \cup {Node("regionFilter", "SubsetRegionFilter")}
    /\ pc' = "initSlidingWindow"
    /\ UNCHANGED << args_, env, pd_, failure, log, imageVars, detectorVars,
                    regionFilter, firstAction, actionIdx, windowVars,
                    inputs, attrConn, monitorVars >>

----------------------------------------------------------------------------
(* process(), lines 135-136, initSlidingWindow() and calcWindows().        *)

WindowStepCountMismatch == "Number of window sizes and window steps must match."

WindowSpec(size, step) == [size |-> size, step |-> step]

\* CalcWindowsCheck without the comparison of the two counts
CalcWindowsCheckNone(a) == TRUE

\* the DG_CHECK of lines 702-704
CalcWindowsCheck(a) ==
    \/ Len(a.windowSize) < 2
    \/ Len(a.windowStep) < 2
    \/ Len(a.windowSize) = Len(a.windowStep)

\* CalcWindows with every width paired with the first step
CalcWindowsFirstStep(a, modelSize, primarySize, primaryStep) ==
    IF Len(a.windowSize) = Len(a.windowStep) /\ a.windowStep /= << >>
    THEN [i \in 1..Len(a.windowSize) |->
             WindowSpec(Size(a.windowSize[i], RoundAspect(modelSize, a.windowSize[i])),
                        Point(a.windowStep[1], RoundAspect(modelSize, a.windowStep[1])))]
    ELSE IF Len(a.windowSize) > 1
    THEN [i \in 1..Len(a.windowSize) |->
             WindowSpec(Size(a.windowSize[i], RoundAspect(modelSize, a.windowSize[i])),
                        primaryStep)]
    ELSE IF Len(a.windowStep) > 1
    THEN [i \in 1..Len(a.windowStep) |->
             WindowSpec(primarySize,
                        Point(a.windowStep[i], RoundAspect(modelSize, a.windowStep[i])))]
    ELSE << WindowSpec(primarySize, primaryStep) >>

\* lines 706-729
CalcWindows(a, modelSize, primarySize, primaryStep) ==
    IF Len(a.windowSize) = Len(a.windowStep) /\ a.windowStep /= << >>
    THEN [i \in 1..Len(a.windowSize) |->
             WindowSpec(Size(a.windowSize[i], RoundAspect(modelSize, a.windowSize[i])),
                        Point(a.windowStep[i], RoundAspect(modelSize, a.windowStep[i])))]
    ELSE IF Len(a.windowSize) > 1
    THEN [i \in 1..Len(a.windowSize) |->
             WindowSpec(Size(a.windowSize[i], RoundAspect(modelSize, a.windowSize[i])),
                        primaryStep)]
    ELSE IF Len(a.windowStep) > 1
    THEN [i \in 1..Len(a.windowStep) |->
             WindowSpec(primarySize,
                        Point(a.windowStep[i], RoundAspect(modelSize, a.windowStep[i])))]
    ELSE << WindowSpec(primarySize, primaryStep) >>

InitSlidingWindow ==
    /\ pc = "initSlidingWindow"
    /\ nodes' = nodes \cup {Node("slidingWindow", "SlidingWindow")}
    /\ IF ~CalcWindowsCheck(args_)
       THEN /\ Throw(WindowStepCountMismatch)
            /\ UNCHANGED << windowSizes, aoi, attrConn >>
       ELSE /\ windowSizes' = CalcWindows(args_, env.modelSize,
                                          primaryWindowSize_, primaryWindowStep_)
            /\ aoi' = bbox_
            /\ attrConn' = attrConn \cup {ConnectAttrs("slidingWindow", "blockSource")}
            /\ pc' = "createNodes"
            /\ UNCHANGED failure
    /\ UNCHANGED << args_, env, pd_, log, imageVars, detectorVars, filterVars,
                    inputs, monitorVars >>

----------------------------------------------------------------------------
(* process(), lines 138-165: the remaining nodes are created.              *)

MissingCredentials == "No credentials specified for WFS service"

MissingToken == "No token specified for WFS service"

IsSegmentation == env.category = "segmentation"

\* initLabelFilter(): a node iff one of the label lists is not empty
InitLabelFilter(a, isSegmentation) ==
    IF a.excludeLabels /= {} \/ a.includeLabels /= {}
    THEN {Node("labelFilter", IF isSegmentation THEN "PolyLabelFilter"
                                                ELSE "BoxLabelFilter")}
    ELSE {}

\* lines 152-161
InitNms(a, isSegmentation) ==
    IF a.nms
    THEN {Node("nms", IF isSegmentation THEN "PolyNonMaxSuppression"
                                        ELSE "BoxNonMaxSuppression")}
    ELSE {}

\* lines 138-147
InitRemoveAlpha(haveAlpha) ==
    IF haveAlpha THEN {Node("removeAlpha", "RemoveBandByColorInterp")} ELSE {}

\* RemoveAlphaAttrs that re-connects the cache only
RemoveAlphaAttrsCacheOnly(haveAlpha) ==
    IF haveAlpha
    THEN {ConnectAttrs("removeAlpha", "blockSource"),
          ConnectAttrs("blockCache", "removeAlpha")}
    ELSE {}

\* lines 142-146: the attribute connections made when there is an alpha band
RemoveAlphaAttrs(haveAlpha) ==
    IF haveAlpha
    THEN {ConnectAttrs("removeAlpha", "blockSource"),
          ConnectAttrs("blockCache", "removeAlpha"),
          ConnectAttrs("border", "removeAlpha"),
          ConnectAttrs("slidingWindow", "removeAlpha")}
    ELSE {}

\* WfsError without the check of the token
WfsErrorTokenUnchecked(a) ==
    IF a.dgcsCatalogID \/ a.evwhsCatalogID
    THEN IF a.wfsCredentials = "" /\ a.credentials = "" THEN MissingCredentials
         ELSE "none"
    ELSE "none"

\* initWfs(): the error it throws, "none" if none
WfsError(a) ==
    IF a.dgcsCatalogID \/ a.evwhsCatalogID
    THEN IF a.wfsCredentials = "" /\ a.credentials = "" THEN MissingCredentials
         ELSE IF a.token = "" THEN MissingToken
         ELSE "none"
    ELSE "none"

\* initWfs(): a node iff a catalog ID was given
InitWfs(a) ==
    IF a.dgcsCatalogID \/ a.evwhsCatalogID
    THEN {Node("fieldExtractor", "WfsFeatureFieldExtractor")}
    ELSE {}

CreateNodes ==
    /\ pc = "createNodes"
    /\ attrConn' = attrConn \cup RemoveAlphaAttrs(haveAlpha_)
    /\ LET early == InitRemoveAlpha(haveAlpha_)
                      \cup InitLabelFilter(args_, IsSegmentation)
                      \cup InitNms(args_, IsSegmentation)
                      \cup {Node("predToFeature", "PredictionToFeature")}
       IN  IF WfsError(args_) /= "none"
           THEN /\ Throw(WfsError(args_))
                /\ nodes' = nodes \cup early
           ELSE /\ nodes' = nodes \cup early \cup InitWfs(args_)
                                  \cup {Node("featureSink", "FileFeatureSink")}
                /\ pc' = "wireSource"
                /\ UNCHANGED failure
    /\ UNCHANGED << args_, env, pd_, log, imageVars, detectorVars, filterVars,
                    windowVars, inputs, monitorVars >>

----------------------------------------------------------------------------
(* process(), lines 167-223: the ports are wired.                          *)

\* lines 167-172
WireSource ==
    /\ pc = "wireSource"
    /\ inputs' = IF HasNode(nodes, "removeAlpha")
                 THEN Connect(Connect(inputs, "removeAlpha", "blockSource"),
                              "blockCache", "removeAlpha")
                 ELSE Connect(inputs, "blockCache", "blockSource")
    /\ pc' = "wireSubsets"
    /\ UNCHANGED << args_, env, pd_, failure, log, imageVars, detectorVars,
                    filterVars, windowVars, nodes, attrConn, monitorVars >>

\* lines 174-180
WireSubsets ==
    /\ pc = "wireSubsets"
    /\ inputs' = LET a == Connect(inputs, "border", "blockCache")
                 IN  IF IsSet(subsetFilter)
                     THEN Connect(Connect(a, "regionFilter", "border"),
                                  "slidingWindow", "regionFilter")
                     ELSE Connect(a, "slidingWindow", "border")
    /\ pc' = "wireDetector"
    /\ UNCHANGED << args_, env, pd_, failure, log, imageVars, detectorVars,
                    filterVars, windowVars, nodes, attrConn, monitorVars >>

\* DetectorInputs with the "else if" of line 188 turned into an "if"
DetectorInputsNoElse(ins, ns) ==
    LET a == Connect(ins, "detector", "slidingWindow")
        b == IF HasNode(ns, "labelFilter")
             THEN LET c == Connect(a, "labelFilter", "detector")
                  IN  IF HasNode(ns, "nms") THEN Connect(c, "nms", "labelFilter") ELSE c
             ELSE a
    IN  IF HasNode(ns, "nms") THEN Connect(b, "nms", "detector") ELSE b

\* lines 182-190
DetectorInputs(ins, ns) ==
    LET a == Connect(ins, "detector", "slidingWindow")
    IN  IF HasNode(ns, "labelFilter")
        THEN LET b == Connect(a, "labelFilter", "detector")
             IN  IF HasNode(ns, "nms") THEN Connect(b, "nms", "labelFilter") ELSE b
        ELSE IF HasNode(ns, "nms") THEN Connect(a, "nms", "detector")
        ELSE a

WireDetector ==
    /\ pc = "wireDetector"
    /\ inputs' = DetectorInputs(inputs, nodes)
    /\ pc' = "wirePredictions"
    /\ UNCHANGED << args_, env, pd_, failure, log, imageVars, detectorVars,
                    filterVars, windowVars, nodes, attrConn, monitorVars >>

\* LastPredictionNode with the label filter tested before the suppression
LastPredictionNodeLabelFirst(ns) ==
    IF HasNode(ns, "labelFilter") THEN "labelFilter"
    ELSE IF HasNode(ns, "nms") THEN "nms"
    ELSE "detector"

\* lines 198-216: the producer of the predictions that leave the
\* detector, the label filter and the suppression
LastPredictionNode(ns) ==
    IF HasNode(ns, "nms") THEN "nms"
    ELSE IF HasNode(ns, "labelFilter") THEN "labelFilter"
    ELSE "detector"

\* lines 192-216
WirePredictions ==
    /\ pc = "wirePredictions"
    /\ nodes' = IF ~IsSegmentation
                THEN nodes \cup {Node("predictionToPoly", "PredictionBoxToPoly")}
                ELSE nodes
    /\ inputs' = IF ~IsSegmentation
                 THEN Connect(Connect(inputs, "predToFeature", "predictionToPoly"),
                              "predictionToPoly", LastPredictionNode(nodes))
                 ELSE Connect(inputs, "predToFeature", LastPredictionNode(nodes))
    /\ pc' = "wireFeatures"
    /\ UNCHANGED << args_, env, pd_, failure, log, imageVars, detectorVars,
                    filterVars, windowVars, attrConn, monitorVars >>

\* lines 218-223
WireFeatures ==
    /\ pc = "wireFeatures"
    /\ inputs' = IF HasNode(nodes, "fieldExtractor")
                 THEN Connect(Connect(inputs, "fieldExtractor", "predToFeature"),
                              "featureSink", "fieldExtractor")
                 ELSE Connect(inputs, "featureSink", "predToFeature")
    /\ pc' = "start"
    /\ UNCHANGED << args_, env, pd_, failure, log, imageVars, detectorVars,
                    filterVars, windowVars, nodes, attrConn, monitorVars >>

----------------------------------------------------------------------------
(* process(), lines 225-273: the graph is run; in interactive mode three   *)
(* metric callbacks feed the progress display and pass on a user's stop.   *)

Metrics == {"total", "forwarded", "processed"}

Interactive == ~args_.quiet /\ pd_

\* lines 227-258: pd_->start() and the three subscriptions
Subscribe ==
    /\ pc = "start"
    /\ Interactive
    /\ pdRunning' = TRUE
    /\ subscriptions' = Metrics
    /\ pc' = "run"
    /\ UNCHANGED << args_, env, pd_, failure, log, imageVars, detectorVars,
                    filterVars, windowVars, graphVars, ran, cb, events,
                    cancelCalls, updates, stopSeen, outcome >>

\* line 260: featureSink->run(), then wait(true) blocks
RunInteractive ==
    /\ pc = "run"
    /\ ran' = TRUE
    /\ pc' = "running"
    /\ UNCHANGED << args_, env, pd_, failure, log, imageVars, detectorVars,
                    filterVars, windowVars, graphVars, subscriptions, pdRunning,
                    cb, events, cancelCalls, updates, stopSeen, outcome >>

\* lines 264-265: featureSink->run(), then wait()
RunSilent ==
    /\ pc = "start"
    /\ ~Interactive
    /\ ran' = TRUE
    /\ pc' = "waiting"
    /\ UNCHANGED << args_, env, pd_, failure, log, imageVars, detectorVars,
                    filterVars, windowVars, graphVars, subscriptions, pdRunning,
                    cb, events, cancelCalls, updates, stopSeen, outcome >>

\* CallbackDecision with the test of isRunning() inverted
CallbackDecisionInverted(running) == IF running THEN "cancel" ELSE "update"

\* lines 234-239, 244-248, 253-257: what a callback does with what
\* pd_->isRunning() returned
CallbackDecision(running) == IF ~running THEN "cancel" ELSE "update"

\* a metric changes and its callback reads pd_->isRunning()
\* (lines 234, 244, 253)
MetricChanged(m) ==
    /\ pc = "running"
    /\ m \in subscriptions
    /\ cb[m] = "idle"
    /\ events < MaxEvents
    /\ events' = events + 1
    /\ cb' = [cb EXCEPT ![m] = CallbackDecision(pdRunning)]
    /\ stopSeen' = IF ~pdRunning THEN stopSeen + 1 ELSE stopSeen
    /\ UNCHANGED << args_, env, pd_, pc, failure, log, imageVars, detectorVars,
                    filterVars, windowVars, graphVars, subscriptions, ran,
                    pdRunning, cancelCalls, updates, outcome >>

\* the progress updates of one callback (lines 237-238, 247, 256)
Update(u, m) ==
    IF m = "total" THEN [u EXCEPT !.maximum = @ + 2]
    ELSE [u EXCEPT !.current = @ + 1]

\* the callback acts on what it read: featureSink->cancel(), or the
\* progress updates (lines 235-238, 245-247, 254-256)
CallbackBody(m) ==
    /\ pc = "running"
    /\ cb[m] /= "idle"
    /\ IF cb[m] = "cancel"
       THEN /\ cancelCalls' = cancelCalls + 1
            /\ UNCHANGED updates
       ELSE /\ updates' = Update(updates, m)
            /\ UNCHANGED cancelCalls
    /\ cb' = [cb EXCEPT ![m] = "idle"]
    /\ UNCHANGED << args_, env, pd_, pc, failure, log, imageVars, detectorVars,
                    filterVars, windowVars, graphVars, subscriptions, ran,
                    pdRunning, events, stopSeen, outcome >>

\* the user stops the progress display while the graph runs
UserStop ==
    /\ pc = "running"
    /\ pdRunning
    /\ pdRunning' = FALSE
    /\ UNCHANGED << args_, env, pd_, pc, failure, log, imageVars, detectorVars,
                    filterVars, windowVars, graphVars, subscriptions, ran,
                    cb, events, cancelCalls, updates, stopSeen, outcome >>

\* lines 261-262: the graph has ended, wait(true) returns, pd_->stop()
WaitInteractive ==
    /\ pc = "running"
    /\ \A m \in Metrics : cb[m] = "idle"
    /\ pdRunning' = FALSE
    /\ pc' = "report"
    /\ UNCHANGED << args_, env, pd_, failure, log, imageVars, detectorVars,
                    filterVars, windowVars, graphVars, subscriptions, ran,
                    cb, events, cancelCalls, updates, stopSeen, outcome >>

\* line 265: wait() returns
WaitSilent ==
    /\ pc = "waiting"
    /\ pc' = "report"
    /\ UNCHANGED << args_, env, pd_, failure, log, imageVars, detectorVars,
                    filterVars, windowVars, graphVars, monitorVars >>

\* lines 268-273: the number of features and the time are logged
Report ==
    /\ pc = "report"
    /\ outcome' = IF ~args_.quiet THEN "features detected" ELSE "quiet"
    /\ pc' = "done"
    /\ UNCHANGED << args_, env, pd_, failure, log, imageVars, detectorVars,
                    filterVars, windowVars, graphVars, subscriptions, ran,
                    pdRunning, cb, events, cancelCalls, updates, stopSeen >>

----------------------------------------------------------------------------
(* The state after construction, for given sets of arguments and inputs.   *)

NodeNames == {"blockSource", "removeAlpha", "blockCache", "border",
              "regionFilter", "slidingWindow", "detector", "labelFilter", "nms",
              "predictionToPoly", "predToFeature", "fieldExtractor",
              "featureSink"}

InitWith(A, E, P) ==
    /\ args_ \in A
    /\ env \in E
    /\ pd_ \in P
    /\ pc = "openImage"
    /\ failure = "none"
    /\ log = << >>
    /\ imageSize_ = Size(0, 0)
    /\ pixelToProj_ = Point(0, 0)
    /\ imageSr_ = DefaultSpatialReference
    /\ sr_ = DefaultSpatialReference
    /\ bbox_ = Rect(0, 0, 0, 0)
    /\ pixelToLL_ = << >>
    /\ haveAlpha_ = FALSE
    /\ primaryWindowSize_ = Size(0, 0)
    /\ primaryWindowStep_ = Point(0, 0)
    /\ regionFilter = {}
    /\ firstAction = TRUE
    /\ actionIdx = 0
    /\ subsetFilter = None
    /\ windowSizes = << >>
    /\ aoi = Rect(0, 0, 0, 0)
    /\ nodes = {}
    /\ inputs = [n \in NodeNames |-> << >>]
    /\ attrConn = {}
    /\ subscriptions = {}
    /\ ran = FALSE
    /\ pdRunning = FALSE
    /\ cb = [m \in Metrics |-> "idle"]
    /\ events = 0
    /\ cancelCalls = 0
    /\ updates = [maximum |-> 0, current |-> 0]
    /\ stopSeen = 0
    /\ outcome = "none"

\* arguments and inputs of an ordinary run: a local 2 x 2 image with a
\* projected spatial reference, a 2 x 2 detection model, nothing optional
BaseArgs ==
    [source |-> "LOCAL", bbox |-> None,
     windowSize |-> << >>, windowStep |-> << >>, resampledSize |-> None,
     filterDefinition |-> << >>,
     excludeLabels |-> {}, includeLabels |-> {}, nms |-> FALSE,
     dgcsCatalogID |-> FALSE, evwhsCatalogID |-> FALSE,
     wfsCredentials |-> "", credentials |-> "", token |-> "",
     quiet |-> TRUE]

BaseEnv ==
    [imageSize |-> Size(2, 2), imageSr |-> "UTM", origin |-> Point(1, 1),
     alpha |-> FALSE,
     modelSize |-> Size(2, 2), category |-> "detection",
     segmentationModel |-> FALSE]

----------------------------------------------------------------------------
(* Image initialisation alone: every source, every bounding box over a     *)
(* small grid, images of every small size with and without anchoring.      *)

BBoxes ==
    {None} \cup {Some(Rect(x, y, w, h)) :
                    x \in 0..MaxCoord, y \in 0..MaxCoord,
                    w \in 0..MaxCoord, h \in 0..MaxCoord}

ImageArgs ==
    {[BaseArgs EXCEPT !.source = s, !.bbox = b] :
        s \in {"UNKNOWN", "LOCAL", "DGCS"}, b \in BBoxes}

ImageEnvs ==
    {[BaseEnv EXCEPT !.imageSize = Size(w, h), !.imageSr = r] :
        w \in 1..MaxCoord, h \in 1..MaxCoord, r \in {"LOCAL", "UTM"}}

InitImage == InitWith(ImageArgs, ImageEnvs, {FALSE})

NextImage == InitLocalImage \/ InitMapServiceImage \/ NoInputSource

SpecImage == InitImage /\ [][NextImage]_vars

\* the image has been initialised without a failure
ImageReady == pc = "initDetector"

\* the pixel-space image of the user's bounding box, as the source computes it
PixelBox ==
    IF SourceRank(args_.source) = 1
    THEN TransformToInt(ChainInverse(pixelToLL_), pixelToProj_, Get(args_.bbox))
    ELSE TransformToInt(<< Inv(T("pixelToProj")) >>, pixelToProj_,
                        TransformRect(<< T("fromLatLon") >>, pixelToProj_,
                                      Get(args_.bbox)))

\* C8 (as claimed): for a local and for a remote source, once the image is
\* initialised without failure the pixel bounding box has a positive width
\* and height and lies within the image rectangle, and a user bounding box
\* whose pixel-space image does not intersect the image makes the run fail
\* with NoIntersection.
C8_BBoxPositiveInsideImage ==
    /\ ImageReady =>
          /\ bbox_.w > 0 /\ bbox_.h > 0
          /\ Within(bbox_, RectOfSize(imageSize_))
    /\ ( /\ pc /= "openImage"
         /\ SourceRank(args_.source) >= 1
         /\ IsSet(args_.bbox)
         /\ ~IgnoreArgsBbox(imageSr_, args_.bbox)
         /\ Intersect(RectOfSize(imageSize_), PixelBox) = Rect(0, 0, 0, 0) )
       => failure = NoIntersection

\* the part of C8 that the local source keeps
C8_LocalBBoxPositiveInsideImage ==
    SourceRank(args_.source) = 1 => C8_BBoxPositiveInsideImage

\* a box that the local source would find outside the image
BoxOutsideImage ==
    /\ IsSet(args_.bbox)
    /\ Intersect(RectOfSize(env.imageSize),
                 TransformToInt(<< Inv(T("pixelToProj")) >>, env.origin,
                                Get(args_.bbox))) = Rect(0, 0, 0, 0)

\* C9: a local image whose spatial reference is LOCAL never fails because
\* of a user-supplied bounding box: the box is ignored, the pixel bounding
\* box is the full image rectangle and the output spatial reference stays
\* LOCAL; for a CRS-anchored local image the output spatial reference is
\* WGS84.
C9_LocalImageIgnoresBBox ==
    (pc /= "openImage" /\ SourceRank(args_.source) = 1) =>
        IF IsLocal(env.imageSr)
        THEN /\ failure = "none"
             /\ bbox_ = Rect(0, 0, env.imageSize.w, env.imageSize.h)
             /\ sr_ = "LOCAL"
        ELSE sr_ = "WGS84"

C9_Witness ==
    /\ pc = "initDetector"
    /\ SourceRank(args_.source) = 1
    /\ IsLocal(env.imageSr)
    /\ BoxOutsideImage
    /\ bbox_ = RectOfSize(env.imageSize)

----------------------------------------------------------------------------
(* Window planning alone: every list of widths and of steps up to MaxList  *)
(* entries, with and without a resample size, for models of three shapes.  *)

Lists(S, n) == UNION {[1..k -> S] : k \in 0..n}

WinArgs ==
    {[BaseArgs EXCEPT !.windowSize = ws, !.windowStep = st, !.resampledSize = r] :
        ws \in Lists(1..MaxWidth, MaxList), st \in Lists(1..MaxWidth, MaxList),
        r \in {None} \cup {Some(v) : v \in 1..MaxWidth}}

WinEnvs ==
    {[BaseEnv EXCEPT !.modelSize = m] : m \in {Size(2, 1), Size(2, 3), Size(1, 2)}}

InitWin == InitWith(WinArgs, WinEnvs, {FALSE})

NextWin ==
    InitLocalImage \/ InitDetector \/ InitSubsetRegionFilter \/ InitSlidingWindow

SpecWin == InitWin /\ [][NextWin]_vars

\* initSlidingWindow() has returned a plan
PlanMade == pc = "createNodes"

\* h is v times the model's aspect ratio, rounded to the nearest integer
RoundsTo(h, v) ==
    /\ 2 * env.modelSize.w * h <= 2 * env.modelSize.h * v + env.modelSize.w
    /\ 2 * env.modelSize.w * h >  2 * env.modelSize.h * v - env.modelSize.w

\* C5: for width and step lists of the same length n >= 1 the plan has
\* exactly n specs, in input order, the i-th being
\* (size = (width[i], round(aspect * width[i])),
\*  step = (step[i], round(aspect * step[i]))).
C5_ZipInOrder ==
    ( /\ PlanMade
      /\ Len(args_.windowSize) = Len(args_.windowStep)
      /\ Len(args_.windowSize) >= 1 ) =>
        /\ Len(windowSizes) = Len(args_.windowSize)
        /\ \A i \in 1..Len(args_.windowSize) :
              /\ windowSizes[i].size.w = args_.windowSize[i]
              /\ RoundsTo(windowSizes[i].size.h, args_.windowSize[i])
              /\ windowSizes[i].step.x = args_.windowStep[i]
              /\ RoundsTo(windowSizes[i].step.y, args_.windowStep[i])

C5_Witness ==
    /\ PlanMade
    /\ Len(args_.windowSize) = 3
    /\ Len(args_.windowStep) = 3
    /\ args_.windowSize[1] /= args_.windowSize[2]
    /\ args_.windowStep[2] /= args_.windowStep[3]
    /\ Len(windowSizes) = 3

\* the two lists both hold more than one entry, and not equally many
CountMismatch ==
    /\ Len(args_.windowSize) > 1
    /\ Len(args_.windowStep) > 1
    /\ Len(args_.windowSize) /= Len(args_.windowStep)

\* C6: one width and k > 1 steps give k specs, that width with each step
\* in order; k > 1 widths and one step give k specs, each width in order
\* with that step; two lists of more than one entry and of different
\* lengths fail with WindowStepCountMismatch, and no plan is made.
C6_BroadcastOrMismatch ==
    /\ (PlanMade /\ Len(args_.windowSize) = 1 /\ Len(args_.windowStep) > 1) =>
          /\ Len(windowSizes) = Len(args_.windowStep)
          /\ \A i \in 1..Len(args_.windowStep) :
                /\ windowSizes[i].size.w = args_.windowSize[1]
                /\ RoundsTo(windowSizes[i].size.h, args_.windowSize[1])
                /\ windowSizes[i].step.x = args_.windowStep[i]
                /\ RoundsTo(windowSizes[i].step.y, args_.windowStep[i])
    /\ (PlanMade /\ Len(args_.windowSize) > 1 /\ Len(args_.windowStep) = 1) =>
          /\ Len(windowSizes) = Len(args_.windowSize)
          /\ \A i \in 1..Len(args_.windowSize) :
                /\ windowSizes[i].size.w = args_.windowSize[i]
                /\ RoundsTo(windowSizes[i].size.h, args_.windowSize[i])
                /\ windowSizes[i].step.x = args_.windowStep[1]
                /\ RoundsTo(windowSizes[i].step.y, args_.windowStep[1])
    /\ CountMismatch =>
          /\ ~PlanMade
          /\ windowSizes = << >>
          /\ HasNode(nodes, "slidingWindow") => failure = WindowStepCountMismatch

C6_Witness ==
    /\ PlanMade
    /\ Len(args_.windowSize) = 1
    /\ Len(args_.windowStep) = 3
    /\ args_.windowStep[1] /= args_.windowStep[2]
    /\ Len(windowSizes) = 3

\* the planner's last case: no list holds more than one entry and the two
\* are not both single-valued
Fallback ==
    /\ Len(args_.windowSize) <= 1
    /\ Len(args_.windowStep) <= 1
    /\ ~(Len(args_.windowSize) = 1 /\ Len(args_.windowStep) = 1)

\* C7 (as claimed): in the fallback case the plan is exactly one spec, the
\* model's own size with the model's default step.
C7_FallbackIsModelDefault ==
    (PlanMade /\ Fallback) =>
        windowSizes = << WindowSpec(env.modelSize, DefaultStep(env.modelSize)) >>

\* C7 (amended): in the fallback case the plan is exactly one spec. Its size
\* is the single requested width (with the height the aspect ratio gives)
\* if there is one, else the resample size if one is requested, else the
\* model's size; its step is the single requested step if there is one,
\* else the model's default step for that size. With no width, no step and
\* no resample size the spec is the model's size with its default step.
C7_FallbackIsPrimary ==
    (PlanMade /\ Fallback) =>
        /\ Len(windowSizes) = 1
        /\ IF Len(args_.windowSize) = 1
           THEN /\ windowSizes[1].size.w = args_.windowSize[1]
                /\ RoundsTo(windowSizes[1].size.h, args_.windowSize[1])
           ELSE IF IsSet(args_.resampledSize)
           THEN /\ windowSizes[1].size.w = Get(args_.resampledSize)
                /\ RoundsTo(windowSizes[1].size.h, Get(args_.resampledSize))
           ELSE windowSizes[1].size = env.modelSize
        /\ IF Len(args_.windowStep) = 1
           THEN /\ windowSizes[1].step.x = args_.windowStep[1]
                /\ RoundsTo(windowSizes[1].step.y, args_.windowStep[1])
           ELSE windowSizes[1].step = DefaultStep(windowSizes[1].size)
        /\ ( /\ args_.windowSize = << >>
             /\ args_.windowStep = << >>
             /\ ~IsSet(args_.resampledSize) ) =>
               windowSizes = << WindowSpec(env.modelSize, DefaultStep(env.modelSize)) >>

C7_Witness ==
    /\ PlanMade
    /\ Len(args_.windowSize) = 1
    /\ args_.windowStep = << >>
    /\ args_.windowSize[1] /= env.modelSize.w
    /\ windowSizes[1].size.w = args_.windowSize[1]

----------------------------------------------------------------------------
(* The region-filter build alone: every action list up to MaxActions       *)
(* entries over a few layers, for an anchored and an unanchored 2 x 2      *)
(* image, with and without a bounding box that halves the extent.          *)

Feature(type, rect) == [type |-> type, rect |-> rect]

Layer(file, sr, features) == [file |-> file, sr |-> sr, features |-> features]

Entry(action, layers) == [action |-> action, layers |-> layers]

\* in projected coordinates: the left column and the top row of the image
PolyA == Feature("POLYGON", Rect(1, 1, 2, 4))

PolyB == Feature("POLYGON", Rect(1, 1, 4, 2))

\* in WGS84 coordinates: the right column of the image
PolyC == Feature("POLYGON", Rect(2, 0, 2, 4))

FilterLayers ==
    { << Layer("a.shp", "UTM", << PolyA >>) >>,
      << Layer("b.shp", "UTM", << PolyB >>) >>,
      << Layer("a.geojson", "LOCAL", << PolyA >>) >>,
      << Layer("b.geojson", "LOCAL", << PolyB >>) >>,
      << Layer("p.shp", "UTM", << Feature("POINT", Rect(1, 1, 0, 0)) >>) >>,
      << Layer("a.shp", "UTM", << PolyA >>), Layer("c.kml", "WGS84", << PolyC >>) >> }

FilterEntries ==
    {Entry(a, l) : a \in {"include", "exclude", "merge"}, l \in FilterLayers}

FilterArgs ==
    {[BaseArgs EXCEPT !.filterDefinition = d, !.bbox = b] :
        d \in Lists(FilterEntries, MaxActions),
        b \in {None, Some(Rect(0, 0, 2, 4))}}

FilterEnvs == {[BaseEnv EXCEPT !.imageSr = r] : r \in {"LOCAL", "UTM"}}

InitFilter == InitWith(FilterArgs, FilterEnvs, {FALSE})

NextFilter ==
    \/ InitLocalImage
    \/ InitDetector
    \/ InitSubsetRegionFilter
    \/ FilterAction
    \/ FilterDone

SpecFilter == InitFilter /\ [][NextFilter]_vars

\* the polygons of one entry, in pixel space
EntryPolys(e) == FilterPolys(pixelToLL_, pixelToProj_, sr_, e.layers)

\* the left-to-right fold of the action list from position i on
RECURSIVE FoldActions(_, _, _)
FoldActions(defs, i, acc) ==
    IF i > Len(defs) THEN acc
    ELSE FoldActions(defs, i + 1,
             IF defs[i].action = "include"
             THEN acc \cup EntryPolys(defs[i])
             ELSE (IF i = 1 THEN acc \cup CellsOf(Rect(0, 0, bbox_.w, bbox_.h))
                            ELSE acc) \ EntryPolys(defs[i]))

AutoIncludes ==
    Cardinality({i \in 1..Len(log) :
                    log[i] = "automatically including the bounding box"})

\* C10: the region filter is the left-to-right fold of the action list from
\* the empty filter: "include" unions the entry's polygons, "exclude"
\* subtracts them, and the full extent is unioned in before the subtraction
\* iff the exclude entry is the first action. [(exclude, A)] gives
\* fullExtent - A, [(include, B), (exclude, A)] gives B - A, and the full
\* extent is included automatically at most once.
C10_FilterIsFold ==
    LET defs == args_.filterDefinition
        full == CellsOf(Rect(0, 0, bbox_.w, bbox_.h))
    IN  /\ pc = "filterAction" =>
              regionFilter = FoldActions(SubSeq(defs, 1, actionIdx - 1), 1, {})
        /\ IsSet(subsetFilter) =>
              /\ Get(subsetFilter) = FoldActions(defs, 1, {})
              /\ (Len(defs) = 1 /\ defs[1].action = "exclude") =>
                    Get(subsetFilter) = full \ EntryPolys(defs[1])
              /\ (Len(defs) = 2 /\ defs[1].action = "include"
                                /\ defs[2].action = "exclude") =>
                    Get(subsetFilter) = EntryPolys(defs[1]) \ EntryPolys(defs[2])
              /\ AutoIncludes = (IF defs[1].action = "exclude" THEN 1 ELSE 0)
        /\ AutoIncludes <= 1

C10_Witness ==
    LET defs == args_.filterDefinition
    IN  /\ IsSet(subsetFilter)
        /\ Len(defs) = 2
        /\ defs[1].action = "include"
        /\ defs[2].action = "exclude"
        /\ Get(subsetFilter) /= {}
        /\ Get(subsetFilter) /= CellsOf(Rect(0, 0, bbox_.w, bbox_.h)) \ EntryPolys(defs[2])

----------------------------------------------------------------------------
(* The whole of process(): every combination of the flags that shape the   *)
(* graph, every combination of the inputs that make a stage fail, and the  *)
(* quiet and interactive ways of running.                                  *)

IncludeA == Entry("include", << Layer("a.shp", "UTM", << PolyA >>) >>)

\* two layers with different spatial references, then an exclusion
IncludeACExcludeB ==
    << Entry("include", << Layer("a.shp", "UTM", << PolyA >>),
                           Layer("c.kml", "WGS84", << PolyC >>) >>),
       Entry("exclude", << Layer("b.shp", "UTM", << PolyB >>) >>) >>

FlagArgs ==
    {[BaseArgs EXCEPT !.filterDefinition = d, !.includeLabels = il,
                      !.excludeLabels = el, !.nms = n,
                      !.dgcsCatalogID = dc, !.evwhsCatalogID = ec,
                      !.credentials = "user:password", !.token = "token"] :
        d \in {<< >>, << IncludeA >>, IncludeACExcludeB},
        il \in {{}, {"car"}}, el \in {{}, {"boat"}}, n \in BOOLEAN,
        dc \in BOOLEAN, ec \in BOOLEAN}

FlagEnvs ==
    {[BaseEnv EXCEPT !.alpha = al, !.category = c, !.segmentationModel = TRUE] :
        al \in BOOLEAN, c \in {"detection", "segmentation"}}

FailArgs ==
    {[BaseArgs EXCEPT !.source = s, !.bbox = b,
                      !.windowSize = w[1], !.windowStep = w[2],
                      !.resampledSize = r, !.filterDefinition = d,
                      !.dgcsCatalogID = c[1], !.wfsCredentials = c[2],
                      !.credentials = c[3], !.token = c[4]] :
        s \in {"UNKNOWN", "LOCAL", "DGCS"},
        b \in {None, Some(Rect(0, 0, 2, 2)), Some(Rect(4, 4, 2, 2))},
        w \in {<< << >>, << >> >>, << << 1, 2 >>, << 1, 2, 1 >> >>, << << 3 >>, << >> >>},
        r \in {None, Some(1), Some(3)},
        d \in {<< >>,
               << IncludeA, Entry("exclude", << Layer("p.shp", "UTM",
                                 << Feature("POINT", Rect(1, 1, 0, 0)) >>) >>) >>,
               << Entry("include", << Layer("a.geojson", "LOCAL", << PolyA >>) >>) >>,
               << Entry("merge", << Layer("a.shp", "UTM", << PolyA >>) >>) >>},
        c \in {<< FALSE, "", "", "" >>, << TRUE, "", "", "token" >>,
               << TRUE, "", "user:password", "" >>,
               << TRUE, "wfs:password", "", "token" >>}}

FailEnvs ==
    {[BaseEnv EXCEPT !.imageSr = r, !.category = c] :
        r \in {"LOCAL", "UTM"}, c \in {"detection", "segmentation"}}

RunArgs == {[BaseArgs EXCEPT !.quiet = q] : q \in BOOLEAN}

Init ==
    \/ InitWith(FlagArgs, FlagEnvs, {FALSE})
    \/ InitWith(FailArgs, FailEnvs, {FALSE})
    \/ InitWith(RunArgs, {BaseEnv}, BOOLEAN)

Next ==
    \/ InitLocalImage
    \/ InitMapServiceImage
    \/ NoInputSource
    \/ InitDetector
    \/ InitSubsetRegionFilter
    \/ FilterAction
    \/ FilterDone
    \/ InitSlidingWindow
    \/ CreateNodes
    \/ WireSource
    \/ WireSubsets
    \/ WireDetector
    \/ WirePredictions
    \/ WireFeatures
    \/ Subscribe
    \/ RunInteractive
    \/ RunSilent
    \/ \E m \in Metrics : MetricChanged(m)
    \/ \E m \in Metrics : CallbackBody(m)
    \/ UserStop
    \/ WaitInteractive
    \/ WaitSilent
    \/ Report

Spec == Init /\ [][Next]_vars

\* the wiring of lines 167-223 is over
Wired == pc \in {"start", "run", "running", "waiting", "report", "done"}

NodeNamesOf(ns) == {n.name : n \in ns}

\* the port edges made so far, producer first
Edges ==
    UNION {{<< inputs[c][i], c >> : i \in 1..Len(inputs[c])} : c \in NodeNames}

Opt(present, name) == IF present THEN << name >> ELSE << >>

\* the chain the decision flags call for
ExpectedChain ==
    << "blockSource" >>
    \o Opt(env.alpha, "removeAlpha")
    \o << "blockCache", "border" >>
    \o Opt(args_.filterDefinition /= << >>, "regionFilter")
    \o << "slidingWindow", "detector" >>
    \o Opt(args_.includeLabels /= {} \/ args_.excludeLabels /= {}, "labelFilter")
    \o Opt(args_.nms, "nms")
    \o Opt(env.category /= "segmentation", "predictionToPoly")
    \o << "predToFeature" >>
    \o Opt(args_.dgcsCatalogID \/ args_.evwhsCatalogID, "fieldExtractor")
    \o << "featureSink" >>

ChainEdges(chain) == {<< chain[i], chain[i + 1] >> : i \in 1..(Len(chain) - 1)}

\* C2: for every combination of the decision flags the edges wired by
\* process() are exactly those of the linear chain raster source ->
\* [band removal] -> cache -> border padding -> [region filter] -> sliding
\* window -> detector -> [label filter] -> [NMS] -> [box to polygon,
\* detection only] -> feature conversion -> [field extraction] -> feature
\* sink: an optional node exists iff its condition holds, and a skipped
\* stage is a direct edge between its neighbours.
C2_LinearChain ==
    Wired =>
        /\ Edges = ChainEdges(ExpectedChain)
        /\ NodeNamesOf(nodes) = {ExpectedChain[i] : i \in 1..Len(ExpectedChain)}

C2_Witness ==
    /\ Wired
    /\ env.category = "segmentation"
    /\ args_.nms
    /\ args_.includeLabels = {} /\ args_.excludeLabels = {}
    /\ << "detector", "nms" >> \in Edges
    /\ << "nms", "predToFeature" >> \in Edges
    /\ ~HasNode(nodes, "predictionToPoly")

\* the nodes from which the node n is fed, n included
RECURSIVE Upstream(_)
Upstream(S) ==
    LET more == S \cup UNION {{inputs[c][i] : i \in 1..Len(inputs[c])} : c \in S}
    IN  IF more = S THEN S ELSE Upstream(more)

\* C3: when featureSink->run() is reached, every input port of every node
\* of the graph has been assigned exactly one producing output port: no
\* input port is ever assigned twice, and no node upstream of the sink,
\* the raster source apart, is left without its input.
C3_OneProducerPerInput ==
    /\ \A n \in NodeNames : Len(inputs[n]) <= 1
    /\ ran =>
          /\ \A n \in (NodeNamesOf(nodes) \cup Upstream({"featureSink"}))
                         \ {"blockSource"} :
                /\ Len(inputs[n]) = 1
                /\ inputs[n][1] \in NodeNamesOf(nodes)
          /\ "blockSource" \in Upstream({"featureSink"})
          /\ Upstream({"featureSink"}) = NodeNamesOf(nodes)

C3_Witness ==
    /\ ran
    /\ NodeNamesOf(nodes) = NodeNames
    /\ inputs["nms"] = << "labelFilter" >>

\* the output spatial reference that image initialisation gives
OutputIsLocal == SourceRank(args_.source) = 1 /\ IsLocal(env.imageSr)

\* what the arguments and the inputs hold that makes a stage fail
PreconditionFailure ==
    \/ SourceRank(args_.source) = 0
    \/ SourceRank(args_.source) > 1 /\ ~IsSet(args_.bbox)
    \/ /\ SourceRank(args_.source) = 1
       /\ ~IsLocal(env.imageSr)
       /\ IsSet(args_.bbox)
       /\ Intersect(RectOfSize(env.imageSize),
                    TransformToInt(<< T("fromLatLon"), Inv(T("pixelToProj")) >>,
                                   env.origin, Get(args_.bbox))) = Rect(0, 0, 0, 0)
    \/ CountMismatch
    \/ IsSet(args_.resampledSize) /\ Get(args_.resampledSize) > env.modelSize.w
    \/ /\ ~IsSet(args_.resampledSize)
       /\ \E i \in 1..Len(args_.windowSize) : args_.windowSize[i] > env.modelSize.w
    \/ env.category = "segmentation" /\ ~env.segmentationModel
    \/ \E i \in 1..Len(args_.filterDefinition) :
          LET e == args_.filterDefinition[i]
          IN  \/ e.action \notin {"include", "exclude"}
              \/ \E j \in 1..Len(e.layers) :
                    \/ IsLocal(e.layers[j].sr) /= OutputIsLocal
                    \/ \E k \in 1..Len(e.layers[j].features) :
                          e.layers[j].features[k].type /= "POLYGON"
    \/ /\ args_.dgcsCatalogID \/ args_.evwhsCatalogID
       /\ \/ args_.wfsCredentials = "" /\ args_.credentials = ""
          \/ args_.token = ""

\* C4: every configuration or precondition failure aborts process() before
\* featureSink->run(): run() never happens in a run with such a failure,
\* nothing happens after a failure, and when run() is called all the wiring
\* and, in interactive mode, the three metric subscriptions are complete.
C4_FailuresAbortBeforeRun ==
    /\ ran =>
          /\ ~PreconditionFailure
          /\ failure = "none"
          /\ Edges = ChainEdges(ExpectedChain)
          /\ Interactive => subscriptions = Metrics
    /\ failure /= "none" => (pc = "failed" /\ ~ran)
    /\ (PreconditionFailure /\ failure = "none") =>
          pc \in {"openImage", "initDetector", "initSubsetRegionFilter",
                  "filterAction", "initSlidingWindow", "createNodes"}

C4_Witness ==
    /\ failure = MissingToken
    /\ pc = "failed"
    /\ ~ran
    /\ HasNode(nodes, "slidingWindow")

\* C1 (as claimed): in interactive mode, once the display has reported not
\* running to a callback, the feature sink receives exactly one cancel()
\* request over the whole run.
C1_ExactlyOneCancel ==
    /\ cancelCalls <= 1
    /\ (pc = "done" /\ stopSeen >= 1) => cancelCalls = 1

\* C1 (amended): in interactive mode, for every interleaving of the three
\* callbacks with the user's stop, each callback that reads the display as
\* stopped makes exactly one cancel() request and no progress update, and
\* each callback that reads it as running makes only its progress updates:
\* over the run the sink receives as many cancel() requests as callbacks
\* have read the stop.
C1_CancelPerObservedStop ==
    LET pending(what) == Cardinality({m \in Metrics : cb[m] = what})
    IN  /\ cancelCalls + pending("cancel") = stopSeen
        /\ updates.maximum + 2 * updates.current + 2 * pending("update")
              = 2 * (events - stopSeen)
        /\ pc \in {"report", "done"} => cancelCalls = stopSeen
        /\ ~Interactive => (cancelCalls = 0 /\ updates = [maximum |-> 0, current |-> 0])

C1_Witness ==
    /\ pc = "done"
    /\ stopSeen = 2
    /\ cancelCalls = 2
    /\ updates.current = 1

----------------------------------------------------------------------------
(* CRS reconciliation of the region-filter layers, under SpecFilter.       *)

\* the layers of the action list whose anchoring differs from the output
\* spatial reference
MismatchedLayers ==
    {l \in UNION {{e.layers[j] : j \in 1..Len(e.layers)} :
                  e \in {args_.filterDefinition[i] :
                         i \in 1..Len(args_.filterDefinition)}} :
        IsLocal(l.sr) /= IsLocal(sr_)}

CrsMismatch == {CrsMismatchFilterLacks, CrsMismatchImageLacks}

\* the region-filter build is over, with a node, without one, or by a throw
FilterBuilt ==
    \/ pc \in {"initSlidingWindow", "createNodes"}
    \/ pc = "failed" /\ HasNode(nodes, "border")

\* the CRS failure happens in both directions and leaves no node; holds
C11_MismatchFailsBothWays ==
    /\ failure \in CrsMismatch =>
          /\ MismatchedLayers /= {}
          /\ ~IsSet(subsetFilter)
          /\ ~HasNode(nodes, "regionFilter")
    /\ (FilterBuilt /\ failure = "none") => MismatchedLayers = {}

\* C11: a layer whose anchoring differs from the image's output spatial
\* reference makes the region-filter build fail with CrsMismatch in both
\* directions, no region-filter node is returned, and the message names the
\* side that lacks the spatial reference: "the file doesn't have a spatial
\* reference" only for a LOCAL layer against an anchored image, "the input
\* image doesn't have a spatial reference" only for an anchored layer
\* against a LOCAL image. With agreeing anchoring no CrsMismatch is raised.
C11_CrsMismatchNamesLackingSide ==
    /\ C11_MismatchFailsBothWays
    /\ failure = CrsMismatchFilterLacks =>
          (~IsLocal(sr_) /\ \E l \in MismatchedLayers : IsLocal(l.sr))
    /\ failure = CrsMismatchImageLacks =>
          (IsLocal(sr_) /\ \E l \in MismatchedLayers : ~IsLocal(l.sr))

----------------------------------------------------------------------------
(* What a cancelled run reports, under Spec.                               *)

\* cancel() has been requested on the feature sink during this run
CancelRequested == cancelCalls > 0

\* what process() reports when the graph ran to its end undisturbed
CompletionOutcomes == {"features detected", "quiet"}

\* a run that was never cancelled reports one of CompletionOutcomes, a
\* cancelled run ends without an error; holds
C12_CancelIsNoError ==
    /\ (pc = "done" /\ ~CancelRequested) => outcome \in CompletionOutcomes
    /\ CancelRequested => (failure = "none" /\ pc \in {"running", "report", "done"})

\* a request for cancellation is never taken back; holds
C12_CancelIsOneWay == [][cancelCalls' >= cancelCalls]_vars

\* C12: a run in which cancellation was requested on the sink ends without
\* an error and with an outcome that differs from the outcome of full
\* completion (a distinct "stopped early" status).
C12_CancelledRunIsDistinct ==
    (pc = "done" /\ CancelRequested) =>
        /\ failure = "none"
        /\ outcome \notin CompletionOutcomes

----------------------------------------------------------------------------
(* The size checks of detector initialisation, under SpecWin.              *)

\* initDetector() has returned or thrown
DetectorDone == HasNode(nodes, "blockCache")

SizeErrors == {ResampleSizeTooLarge, WindowSizeTooLarge}

\* TRUE iff some requested window size exceeds the model's width
SomeWindowTooLarge ==
    \E i \in 1..Len(args_.windowSize) : args_.windowSize[i] > env.modelSize.w

\* C13: a resample size above the model's width always fails with
\* ResampleSizeTooLarge; with no resample size, any requested window size
\* (not only the first) above the model's width fails with
\* WindowSizeTooLarge; with a valid resample size the window sizes are not
\* checked against the model width. Both failures come out of detector
\* initialisation, before a detector node exists or any port is wired.
C13_SizeChecks ==
    /\ DetectorDone =>
          /\ (IsSet(args_.resampledSize)
                /\ Get(args_.resampledSize) > env.modelSize.w)
             => failure = ResampleSizeTooLarge
          /\ (~IsSet(args_.resampledSize) /\ SomeWindowTooLarge)
             => failure = WindowSizeTooLarge
          /\ (IsSet(args_.resampledSize)
                /\ Get(args_.resampledSize) <= env.modelSize.w)
             => failure \notin SizeErrors
          /\ (~IsSet(args_.resampledSize) /\ ~SomeWindowTooLarge)
             => failure \notin SizeErrors
    /\ failure \in SizeErrors =>
          /\ ~HasNode(nodes, "detector")
          /\ ~HasNode(nodes, "slidingWindow")
          /\ \A n \in NodeNames : inputs[n] = << >>

\* a later window size alone is too large and the run fails
C13_Witness ==
    /\ failure = WindowSizeTooLarge
    /\ Len(args_.windowSize) >= 2
    /\ args_.windowSize[1] <= env.modelSize.w
    /\ pc = "failed"

\* a valid resample size lets a too large window size through
C13_WitnessUnchecked ==
    /\ PlanMade
    /\ IsSet(args_.resampledSize)
    /\ SomeWindowTooLarge

----------------------------------------------------------------------------
(* Band removal and the consumers of the raster source, under Spec.        *)

\* the nodes that take the raster source's attributes
SourceConsumers == {"blockCache", "border", "slidingWindow"}

\* consumer c is connected to the provider p, by its attributes or by a port
ConnectedTo(c, p) ==
    \/ ConnectAttrs(c, p) \in attrConn
    \/ \E i \in 1..Len(inputs[c]) : inputs[c][i] = p

\* C14 (as claimed): with an alpha band a band-removal node stands between
\* the raster source and each of the cache, the border node and the sliding
\* window, none of which is connected to the source directly; without an
\* alpha band there is no band-removal node and the three are connected
\* directly to the source.
C14_BandRemovalBetween ==
    Wired =>
        IF haveAlpha_
        THEN /\ HasNode(nodes, "removeAlpha")
             /\ ConnectedTo("removeAlpha", "blockSource")
             /\ \A c \in SourceConsumers :
                   /\ ConnectedTo(c, "removeAlpha")
                   /\ ~ConnectedTo(c, "blockSource")
        ELSE /\ ~HasNode(nodes, "removeAlpha")
             /\ \A c \in SourceConsumers : ConnectedTo(c, "blockSource")

\* C14 (amended): the cache, the border node and the sliding window always
\* have their attributes connected to the raster source. With an alpha band
\* a band-removal node exists, takes the source's attributes and blocks,
\* feeds the cache's block input, and each of the three has its attributes
\* connected to it as well, after the connection to the source. Without an
\* alpha band there is no band-removal node, nothing is connected to one,
\* and the cache takes its blocks from the source. In both cases the border
\* node is fed by the cache and the sliding window by the border node or
\* the region filter.
C14_BandRemovalReconnects ==
    /\ \A c \in SourceConsumers :
          ConnectAttrs(c, "removeAlpha") \in attrConn =>
              ConnectAttrs(c, "blockSource") \in attrConn
    /\ Wired =>
          /\ haveAlpha_ = env.alpha
          /\ HasNode(nodes, "removeAlpha") = haveAlpha_
          /\ attrConn =
                {ConnectAttrs(c, "blockSource") : c \in SourceConsumers}
                \cup (IF haveAlpha_
                      THEN {ConnectAttrs("removeAlpha", "blockSource")}
                           \cup {ConnectAttrs(c, "removeAlpha") : c \in SourceConsumers}
                      ELSE {})
          /\ inputs["removeAlpha"] = Opt(haveAlpha_, "blockSource")
          /\ inputs["blockCache"] =
                << IF haveAlpha_ THEN "removeAlpha" ELSE "blockSource" >>
          /\ inputs["border"] = << "blockCache" >>
          /\ inputs["slidingWindow"] =
                << IF HasNode(nodes, "regionFilter") THEN "regionFilter" ELSE "border" >>

C14_Witness ==
    /\ Wired
    /\ haveAlpha_
    /\ ConnectAttrs("slidingWindow", "blockSource") \in attrConn
    /\ ConnectAttrs("slidingWindow", "removeAlpha") \in attrConn
    /\ inputs["blockCache"] = << "removeAlpha" >>

----------------------------------------------------------------------------
(* The products of image initialisation, under Spec.                       *)

\* the products of image initialisation that later stages read
ImageProducts == << bbox_, pixelToLL_, sr_, imageSr_, pixelToProj_, imageSize_ >>

\* the pixels of one layer's polygons, each transformed by the inverse of
\* the chain held in pixelToLL_ with this layer's from(WGS84) alone
OwnChainCells(l) ==
    LET chain == IF IsLocal(sr_) THEN pixelToLL_
                 ELSE Append(pixelToLL_, FromWGS84(l.sr))
    IN  UNION {CellsOf(TransformToInt(ChainInverse(chain), pixelToProj_,
                                      l.features[k].rect))
               : k \in 1..Len(l.features)}

OwnChainPolys(e) == UNION {OwnChainCells(e.layers[j]) : j \in 1..Len(e.layers)}

\* the filter that the action list gives when every layer starts from the
\* chain of image initialisation
RECURSIVE OwnChainFilter(_, _, _)
OwnChainFilter(defs, i, acc) ==
    IF i > Len(defs) THEN acc
    ELSE OwnChainFilter(defs, i + 1,
             IF defs[i].action = "include"
             THEN acc \cup OwnChainPolys(defs[i])
             ELSE (IF i = 1 THEN acc \cup CellsOf(FullExtent(bbox_)) ELSE acc)
                  \ OwnChainPolys(defs[i]))

\* C15: once image initialisation has returned, no later stage (detector
\* initialisation, region-filter build, sliding-window initialisation,
\* wiring, execution) changes the pixel bounding box, the pixel-to-geography
\* chain or the image and output spatial references; the sliding window,
\* once its plan is made, has that bounding box as its aoi; and the region
\* filter is the one obtained when every layer of every file is transformed
\* by the original chain with its own from-WGS84 transform only, so that
\* transforms do not accumulate.
C15_ImageProductsImmutable ==
    /\ [][pc /= "openImage" => ImageProducts' = ImageProducts]_vars
    /\ []((HasNode(nodes, "slidingWindow") /\ failure /= WindowStepCountMismatch)
             => aoi = bbox_)
    /\ [](IsSet(subsetFilter) =>
             Get(subsetFilter) = OwnChainFilter(args_.filterDefinition, 1, {}))

C15_Witness ==
    /\ pc = "done"
    /\ IsSet(subsetFilter)
    /\ args_.filterDefinition = IncludeACExcludeB
    /\ Get(subsetFilter) /= {}
    /\ Get(subsetFilter) /= CellsOf(FullExtent(bbox_))
    /\ pixelToLL_ = ChainInverse(<< T("fromLatLon"), Inv(T("pixelToProj")) >>)

====
